---------------------------- MODULE Spec2Model ----------------------------
(***************************************************************************)
(* Model of Server.py: the capture / pose-inference / UDP-transmit loop    *)
(* with sleep-based frame pacing and the 'q' quit poll.                    *)
(*                                                                         *)
(* Python floats are IEEE-754 binary64.  They are modelled exactly, as     *)
(* sign * man * 2^exp with man an arbitrary-length bit string (least       *)
(* significant bit first), and every arithmetic operation rounds its exact *)
(* result to 53 significant bits, ties to even, as the hardware does.      *)
(* Exponents stay far from the overflow and subnormal ranges.              *)
(***************************************************************************)
EXTENDS Integers, Sequences, FiniteSets, TLC

(***************************************************************************)
(* Program constants (Server.py lines 14, 31, 32, 90).                     *)
(***************************************************************************)
TARGET_FPS == 30
REQ_WIDTH == 1280
REQ_HEIGHT == 720
\* ord('q') and the mask 0xFF of line 90
ORD_Q == 113
KEY_MASK == 255

(***************************************************************************)
(* Bounds of the model.                                                    *)
(***************************************************************************)
\* the clock advances along a grid of this many instants per second (and to
\* the instant a sleep is due to end)
TicksPerSecond == 60
\* the clock stops at this grid instant
MaxTime == 4
\* a clock value of the present day, in whole seconds since the epoch
EpochSeconds == 1793342400
\* consecutive capture failures are counted up to this number
MaxStreak == 3
\* most landmarks in one detection
MaxLandmarks == 2

(***************************************************************************)
(* binary64 arithmetic on bit strings.                                     *)
(***************************************************************************)
\* significand width of a Python float
MantBits == 53
\* zero bits appended to a dividend so that the quotient has more than
\* MantBits + 1 significant bits for any divisor below 2^26
DivPad == 80

Zeros(n) == [i \in 1..n |-> 0]

\* bit i of b, zero beyond its length
BitAt(b, i) == IF i <= Len(b) THEN b[i] ELSE 0

\* the highest index in lo..hi where b holds a 1, or 0
RECURSIVE TopOne(_, _, _)
TopOne(b, lo, hi) ==
    IF lo > hi THEN 0
    ELSE IF lo = hi THEN (IF b[lo] = 1 THEN lo ELSE 0)
    ELSE LET mid == (lo + hi) \div 2
             t == TopOne(b, mid + 1, hi)
         IN  IF t > 0 THEN t ELSE TopOne(b, lo, mid)

\* the lowest index in lo..hi where b holds a 1, or 0
RECURSIVE LowOne(_, _, _)
LowOne(b, lo, hi) ==
    IF lo > hi THEN 0
    ELSE IF lo = hi THEN (IF b[lo] = 1 THEN lo ELSE 0)
    ELSE LET mid == (lo + hi) \div 2
             t == LowOne(b, lo, mid)
         IN  IF t > 0 THEN t ELSE LowOne(b, mid + 1, hi)

\* b without its high zero bits
StripHigh(b) == SubSeq(b, 1, TopOne(b, 1, Len(b)))

\* the number of low zero bits of a nonzero b
LowZeros(b) == LET i == LowOne(b, 1, Len(b)) IN IF i = 0 THEN 0 ELSE i - 1

RECURSIVE NatBits(_)
NatBits(n) == IF n = 0 THEN <<>> ELSE <<n % 2>> \o NatBits(n \div 2)

(* Long arithmetic runs on limbs of LimbBits bits, least significant first, *)
(* so that every intermediate value fits a machine integer.                *)
LimbBits == 15
LimbBase == 32768
Pow2(t) == <<1, 2, 4, 8, 16, 32, 64, 128, 256, 512, 1024, 2048, 4096, 8192,
             16384>>[t + 1]

RECURSIVE LimbOf(_, _, _)
LimbOf(b, base, t) ==
    IF t = LimbBits THEN 0
    ELSE BitAt(b, base + t + 1) * Pow2(t) + LimbOf(b, base, t + 1)

ToLimbs(b) ==
    [j \in 1..((Len(b) + LimbBits - 1) \div LimbBits) |->
        LimbOf(b, LimbBits * (j - 1), 0)]
FromLimbs(l) ==
    [i \in 1..(LimbBits * Len(l)) |->
        (l[((i - 1) \div LimbBits) + 1] \div Pow2((i - 1) % LimbBits)) % 2]
LimbAt(l, j) == IF j <= Len(l) THEN l[j] ELSE 0

\* limbs j.. of a + b + c
RECURSIVE AddL(_, _, _, _)
AddL(a, b, j, c) ==
    IF j > Len(a) /\ j > Len(b) THEN <<c>>
    ELSE LET s == LimbAt(a, j) + LimbAt(b, j) + c
         IN  <<s % LimbBase>> \o AddL(a, b, j + 1, s \div LimbBase)
AddC(a, b, c) == FromLimbs(AddL(ToLimbs(a), ToLimbs(b), 1, c))

\* limbs j.. of a - b - br, for a >= b
RECURSIVE SubL(_, _, _, _)
SubL(a, b, j, br) ==
    IF j > Len(a) THEN <<>>
    ELSE LET d == a[j] - LimbAt(b, j) - br
         IN  <<d % LimbBase>> \o SubL(a, b, j + 1, IF d < 0 THEN 1 ELSE 0)
SubB(a, b, br) == FromLimbs(SubL(ToLimbs(a), ToLimbs(b), 1, br))

\* a < b, for bit strings without high zeros
LessBits(a, b) ==
    IF Len(a) # Len(b) THEN Len(a) < Len(b)
    ELSE IF a = b THEN FALSE
    ELSE LET i == CHOOSE i \in 1..Len(a) :
                      a[i] # b[i] /\ \A j \in (i + 1)..Len(a) : a[j] = b[j]
         IN  a[i] < b[i]

\* limbs j.. of a * k + c, for 0 < k < 2^15
RECURSIVE MulL(_, _, _, _)
MulL(a, k, j, c) ==
    IF j > Len(a) THEN <<c>>
    ELSE LET t == a[j] * k + c
         IN  <<t % LimbBase>> \o MulL(a, k, j + 1, t \div LimbBase)
MulC(b, k, c) == FromLimbs(MulL(ToLimbs(b), k, 1, c))

\* long division by k (0 < k < 2^26) of limbs j..1 of a, high limb first,
\* r the remainder carried in: the quotient's limbs 1..j and the remainder.
\* Each limb is divided in three parts of 5 bits, so that r * 32 + part
\* fits a machine integer.
RECURSIVE DivL(_, _, _, _)
DivL(a, k, j, r) ==
    IF j = 0 THEN [q |-> <<>>, r |-> r]
    ELSE LET t2 == r * 32 + (a[j] \div 1024)
             t1 == (t2 % k) * 32 + ((a[j] \div 32) % 32)
             t0 == (t1 % k) * 32 + (a[j] % 32)
             lo == DivL(a, k, j - 1, t0 % k)
         IN  [q |-> lo.q \o <<(t2 \div k) * 1024 + (t1 \div k) * 32 + (t0 \div k)>>,
              r |-> lo.r]
DivR(b, k) ==
    LET l == ToLimbs(b)
        d == DivL(l, k, Len(l), 0)
    IN  [q |-> FromLimbs(d.q), r |-> d.r]

\* the canonical record of sign * bits * 2^exp (no rounding)
MkFloat(sign, bits, exp) ==
    LET b == StripHigh(bits)
        z == LowZeros(b)
    IN  IF b = <<>> THEN [sign |-> sign, man |-> <<>>, exp |-> 0]
        ELSE [sign |-> sign, man |-> SubSeq(b, z + 1, Len(b)), exp |-> exp + z]

\* sign * (bits + a nonzero fraction if sticky) * 2^exp, rounded to
\* MantBits significant bits, ties to even
RoundFloat(sign, bits, exp, sticky) ==
    LET b == StripHigh(bits)
        L == Len(b)
        d == L - MantBits
    IN  IF d <= 0 THEN MkFloat(sign, b, exp)
        ELSE LET kept == SubSeq(b, d + 1, L)
                 guard == b[d]
                 st == sticky \/ \E i \in 1..(d - 1) : b[i] = 1
                 up == guard = 1 /\ (st \/ kept[1] = 1)
             IN  MkFloat(sign, IF up THEN AddC(kept, <<1>>, 0) ELSE kept, exp + d)

FromInt(n) == MkFloat(IF n < 0 THEN 1 ELSE 0, NatBits(IF n < 0 THEN -n ELSE n), 0)

\* hexadecimal digits, most significant first, to a bit string
RECURSIVE HexBits(_)
HexBits(ds) ==
    IF ds = <<>> THEN <<>>
    ELSE LET d == ds[Len(ds)]
         IN  <<d % 2, (d \div 2) % 2, (d \div 4) % 2, (d \div 8) % 2>>
             \o HexBits(SubSeq(ds, 1, Len(ds) - 1))
FromHex(sign, ds, exp) == MkFloat(sign, HexBits(ds), exp)

FNeg(f) == [f EXCEPT !.sign = 1 - f.sign]

\* the exact sum of two floats, as an unrounded record
ExactAdd(a, b) ==
    LET e == IF a.exp < b.exp THEN a.exp ELSE b.exp
        A == IF a.man = <<>> THEN <<>> ELSE Zeros(a.exp - e) \o a.man
        B == IF b.man = <<>> THEN <<>> ELSE Zeros(b.exp - e) \o b.man
    IN  IF a.sign = b.sign THEN [sign |-> a.sign, bits |-> AddC(A, B, 0), exp |-> e]
        ELSE IF A = B THEN [sign |-> 0, bits |-> <<>>, exp |-> e]
        ELSE IF LessBits(A, B)
             THEN [sign |-> b.sign, bits |-> SubB(B, A, 0), exp |-> e]
             ELSE [sign |-> a.sign, bits |-> SubB(A, B, 0), exp |-> e]

\* float + float
FAdd(a, b) == LET s == ExactAdd(a, b) IN RoundFloat(s.sign, s.bits, s.exp, FALSE)
\* float - float
FSub(a, b) == FAdd(a, FNeg(b))
\* float * int, for an int k > 0 (the int converts exactly)
FMulInt(f, k) == RoundFloat(f.sign, MulC(f.man, k, 0), f.exp, FALSE)
\* float * int and nothing rounded
XMulInt(f, k) == MkFloat(f.sign, MulC(f.man, k, 0), f.exp)
\* float * 1e9 (1e9 = 1000^3 is a float)
FMulBillion(f) ==
    LET x == XMulInt(XMulInt(XMulInt(f, 1000), 1000), 1000)
    IN  RoundFloat(x.sign, x.man, x.exp, FALSE)
\* float / int, for an int k > 0
FDivInt(f, k) ==
    LET n == Zeros(DivPad) \o f.man
        d == DivR(n, k)
    IN  IF f.man = <<>> THEN f
        ELSE RoundFloat(f.sign, d.q, f.exp - DivPad, d.r # 0)

\* the exact difference of two floats
XSub(a, b) == LET d == ExactAdd(a, FNeg(b)) IN MkFloat(d.sign, d.bits, d.exp)
\* float < float, float <= float
FLess(a, b) == LET d == XSub(a, b) IN d.man # <<>> /\ d.sign = 1
FLeq(a, b) == ~FLess(b, a)
FZero == FromInt(0)
\* float / 1e9 (1e9 = 5^9 * 2^9)
FDivBillion(f) ==
    LET q == FDivInt(f, 1953125)
    IN  IF q.man = <<>> THEN q ELSE [q EXCEPT !.exp = @ - 9]
\* the number a bit string of fewer than 31 bits stands for
NatOf(b) == LET l == ToLimbs(b) IN LimbAt(l, 1) + LimbBase * LimbAt(l, 2)
\* the least integer >= f, for 0 <= f < 2^30
CeilInt(f) ==
    IF f.man = <<>> \/ f.sign = 1 THEN 0
    ELSE IF f.exp >= 0 THEN NatOf(Zeros(f.exp) \o f.man)
    ELSE IF -f.exp >= Len(f.man) THEN 1
    ELSE NatOf(SubSeq(f.man, 1 - f.exp, Len(f.man))) + 1

\* |f| <= 2^n
AbsLeqPow2(f, n) ==
    \/ f.man = <<>>
    \/ Len(f.man) + f.exp <= n
    \/ f.man = <<1>> /\ f.exp = n

(***************************************************************************)
(* Float values the model draws landmark coordinates from.                 *)
(***************************************************************************)
\* 0.5, 0.25, 1.5, 2^-60 and the doubles nearest 0.1, 0.007, 0.001
F_0_5 == MkFloat(0, <<1>>, -1)
F_0_25 == MkFloat(0, <<1>>, -2)
F_1_5 == MkFloat(0, <<1, 1>>, -1)
F_Tiny == MkFloat(0, <<1>>, -60)
F_0_1 == FromHex(0, <<1, 9, 9, 9, 9, 9, 9, 9, 9, 9, 9, 9, 9, 10>>, -56)
F_0_007 == FromHex(0, <<1, 12, 10, 12, 0, 8, 3, 1, 2, 6, 14, 9, 7, 9>>, -60)
F_0_001 == FromHex(0, <<1, 0, 6, 2, 4, 13, 13, 2, 15, 1, 10, 9, 15, 12>>, -62)

Landmark(x, y, z) == [x |-> x, y |-> y, z |-> z]
\* the landmark of the end-to-end scenario, and one off-centre with z < 0
LmCentre == Landmark(F_0_5, F_0_5, F_0_1)
LmOther == Landmark(F_0_25, F_1_5, FNeg(F_0_25))

\* coordinates of the landmark the mapping is exercised on
MapCoords == {F_0_5, F_0_1, F_0_007, F_0_001, F_Tiny, F_1_5, FNeg(F_0_25)}
\* (width, height) of the frames the camera may deliver
FrameSizes == {<<REQ_WIDTH, REQ_HEIGHT>>, <<640, 480>>}

(***************************************************************************)
(* The program's state.                                                    *)
(***************************************************************************)
VARIABLES
    pc,              \* the statement the loop is at
    now,             \* the system clock: seconds and nanoseconds
    last_frame_time, \* line 40 / 85
    current_time,    \* line 81
    elapsed,         \* line 82
    success,         \* line 44
    w, h,            \* line 49: the shape of the captured frame
    results,         \* line 53: NoPose or the landmark list
    drawn,           \* the skeleton has been drawn on img (line 59)
    data,            \* line 55 / 72
    key,             \* the key event waiting in the window's queue
    camOpen,         \* cap is open (until cap.release())
    winOpen,         \* the "Image" window exists
    wake,            \* the clock value at which the running time.sleep is due
    \* history, read by the properties only
    steps,           \* statements executed in the current iteration
    sendCalls,       \* sock.sendto calls in the current iteration
    sentPayload,     \* the argument of this iteration's sock.sendto call
    sendErr,         \* this iteration's sock.sendto call raised
    prevSendErr,     \* the latest sock.sendto call of an earlier iteration raised
    failStreak,      \* consecutive failed captures
    sleepReq,        \* the argument of this iteration's time.sleep call
    quitIters,       \* iterations begun while a quit key was waiting
    readTime,        \* the clock value when cap.read() was last called
    recovered        \* the inverse mapping of data

vars == <<pc, now, last_frame_time, current_time, elapsed, success, w, h,
          results, drawn, data, key, camOpen, winOpen, wake, steps,
          sendCalls, sentPayload, sendErr, prevSendErr, failStreak, sleepReq,
          quitIters, readTime, recovered>>

NoPose == <<>>
NoKey == -1
\* the value of a time variable that has not been assigned: -1.0, which the
\* clock never reads
NoTime == FromInt(-1)
\* the value of a clock-valued variable that holds no clock value
NoInstant == [sec |-> -1, nsec |-> 0]
NoPayload == [list |-> <<"none">>]
\* key codes cv2.waitKey may return: 'q' and 'a'
KeyCodes == {ORD_Q, 97}
Running == {"read", "process", "build", "send", "time", "sleep", "sleeping",
            "stamp", "imshow", "waitKey"}
Shutdown == {"release", "destroy", "done"}

\* line 39: frame_time = 1.0 / TARGET_FPS
frame_time == FDivInt(FromInt(1), TARGET_FPS)

\* the system clock counts nanoseconds
SEC_TO_NS == 1000000000
\* the clock when the program starts
ClockStart == [sec |-> EpochSeconds, nsec |-> 0]
\* the grid instants, in nanoseconds after the clock's start: grid steps of
\* 1 / TicksPerSecond seconds, rounded up to a nanosecond
GridNs(n) == n * ((SEC_TO_NS + TicksPerSecond - 1) \div TicksPerSecond)
\* clock value + k nanoseconds
AddNs(c, k) ==
    LET n == c.nsec + k
    IN  [sec |-> c.sec + (n \div SEC_TO_NS), nsec |-> n % SEC_TO_NS]
\* clock value <= clock value
TsLeq(a, b) == a.sec < b.sec \/ (a.sec = b.sec /\ a.nsec <= b.nsec)
\* the clock's nanosecond count as a float: (double)(sec * 10^9 + nsec)
NsDouble(c) ==
    FAdd(XMulInt(XMulInt(XMulInt(FromInt(c.sec), 1000), 1000), 1000),
         FromInt(c.nsec))
\* lines 40, 81, 85: time.time() is the float of the whole seconds when the
\* clock holds no fraction of one, and (double)nanoseconds / 1e9 otherwise
TimeTime(c) ==
    IF c.nsec = 0 THEN FromInt(c.sec) ELSE FDivBillion(NsDouble(c))
\* line 84: time.sleep(d) waits for d * 1e9 nanoseconds, rounded up to a
\* whole number of them
SleepNs(d) == CeilInt(FMulBillion(d))

Min(a, b) == IF a < b THEN a ELSE b

\* the poses the estimator may report: one of each length 1..MaxLandmarks
Pose(n) == [i \in 1..n |-> IF (i + n) % 2 = 0 THEN LmCentre ELSE LmOther]
Detections == {Pose(n) : n \in 1..MaxLandmarks}

(***************************************************************************)
(* Pure parts of the loop body.                                            *)
(***************************************************************************)
\* the mapping without the vertical flip
MapLandmark_NoFlip(lm, fw, fh) ==
    <<FMulInt(lm.x, fw), FMulInt(lm.y, fh), FMulInt(lm.z, fw)>>
\* lines 68-70
MapLandmark(lm, fw, fh) ==
    <<FMulInt(lm.x, fw),
      FSub(FromInt(fh), FMulInt(lm.y, fh)),
      FMulInt(lm.z, fw)>>

\* the list is not emptied
InitData_Keep(old) == old
\* line 55: data = []
InitData(old) == <<>>

\* lines 66-72: data.extend([posX, posY, posZ]) for each landmark in order
RECURSIVE Extend(_, _, _, _, _)
Extend(d, lms, i, fw, fh) ==
    IF i > Len(lms) THEN d
    ELSE Extend(d \o MapLandmark(lms[i], fw, fh), lms, i + 1, fw, fh)
BuildData(old, lms, fw, fh) == Extend(InitData(old), lms, 1, fw, fh)

\* the branch is always taken
HasPose_Always(r) == TRUE
\* line 58: if results.pose_landmarks
HasPose(r) == r # NoPose

\* line 76: str.encode(str(data)).  The text is Python's rendering of the
\* list, "[v1, v2, ...]", each float in its shortest form that reads back
\* to the same float; it is kept as the list of floats it denotes.
Encode(d) == [list |-> d]

\* line 83: if elapsed < frame_time
NeedSleep(el, ft) == FLess(el, ft)
\* the operands are exchanged
SleepArg_Negated(el, ft) == FSub(el, ft)
\* line 84: the argument of time.sleep
SleepArg(el, ft) == FSub(ft, el)
\* the time read before the sleep is stored
StampTime_BeforeSleep(t, before) == before
\* line 85: last_frame_time = time.time(), read after the sleep
StampTime(t, before) == t

\* line 90: cv2.waitKey(1) & 0xFF == ord('q')
IsQuit(k) == (k % (KEY_MASK + 1)) = ORD_Q

\* where control goes: line 47 (continue), line 58, lines 75-78 (the
\* except clause falls through), line 85, lines 90-91
\* the failure branch falls through, or breaks out of the loop
OnCaptureFailure_FallThrough == "process"
OnCaptureFailure_Break == "release"
OnCaptureFailure == "read"
AfterBuild(r) == IF HasPose(r) THEN "send" ELSE "time"
\* the except clause sends again
OnSendError_Retry == "send"
OnSendError == "time"
\* a sent frame skips the pacing
AfterSend_SkipPacing == "imshow"
AfterSend == "time"
AfterStamp == "imshow"
\* the quit key does not break
OnQuit_Ignored == "read"
OnQuit == "release"
OnNoQuit == "read"

(***************************************************************************)
(* Initial state: lines 16-40 have run.                                    *)
(***************************************************************************)
Init ==
    /\ pc = "read"
    /\ now = ClockStart
    /\ last_frame_time = TimeTime(now)
    /\ current_time = NoTime
    /\ elapsed = NoTime
    /\ success = FALSE
    /\ w = REQ_WIDTH
    /\ h = REQ_HEIGHT
    /\ results = NoPose
    /\ drawn = FALSE
    /\ data = <<>>
    /\ key = NoKey
    /\ camOpen = TRUE
    /\ winOpen = FALSE
    /\ wake = NoInstant
    /\ steps = <<>>
    /\ sendCalls = 0
    /\ sentPayload = NoPayload
    /\ sendErr = FALSE
    /\ prevSendErr = FALSE
    /\ failStreak = 0
    /\ sleepReq = FZero
    /\ quitIters = 0
    /\ readTime = NoInstant
    /\ recovered = <<>>

hist == <<sendCalls, sentPayload, sendErr, prevSendErr, failStreak, sleepReq,
          quitIters, readTime>>

(***************************************************************************)
(* The statements of the loop.                                             *)
(***************************************************************************)
\* lines 44-49: cap.read(), the failure branch, img.shape
Capture ==
    /\ pc = "read"
    /\ \E ok \in BOOLEAN, size \in FrameSizes :
          /\ success' = ok
          /\ IF ok
             THEN /\ pc' = "process"
                  /\ w' = size[1]
                  /\ h' = size[2]
                  /\ failStreak' = 0
             ELSE /\ pc' = OnCaptureFailure
                  /\ UNCHANGED <<w, h>>
                  /\ failStreak' = Min(failStreak + 1, MaxStreak)
    /\ drawn' = FALSE
    /\ steps' = <<"read">>
    /\ sendCalls' = 0
    /\ sentPayload' = NoPayload
    /\ sendErr' = FALSE
    /\ prevSendErr' = IF sendCalls > 0 THEN sendErr ELSE prevSendErr
    /\ sleepReq' = FZero
    /\ readTime' = now
    /\ quitIters' = IF IsQuit(key) THEN Min(quitIters + 1, 2) ELSE 0
    /\ UNCHANGED <<now, last_frame_time, current_time, elapsed, results, data,
                   key, camOpen, winOpen, wake, recovered>>

\* lines 52-53: cvtColor and pose.process return
Process ==
    /\ pc = "process"
    /\ \E r \in Detections \cup {NoPose} : results' = r
    /\ pc' = "build"
    /\ steps' = Append(steps, "process")
    /\ UNCHANGED <<now, last_frame_time, current_time, elapsed, success, w, h,
                   drawn, data, key, camOpen, winOpen, wake, recovered>>
    /\ UNCHANGED hist

\* line 53: pose.process raises; nothing catches it and the process dies
ProcessRaises ==
    /\ pc = "process"
    /\ pc' = "crashed"
    /\ steps' = Append(steps, "process")
    /\ UNCHANGED <<now, last_frame_time, current_time, elapsed, success, w, h,
                   results, drawn, data, key, camOpen, winOpen, wake,
                   recovered>>
    /\ UNCHANGED hist

\* lines 55-72: data = [], and with a pose the overlay and the mapping
Build ==
    /\ pc = "build"
    /\ data' = IF HasPose(results) THEN BuildData(data, results, w, h)
               ELSE InitData(data)
    /\ drawn' = HasPose(results)
    /\ pc' = AfterBuild(results)
    /\ steps' = Append(steps, "build")
    /\ UNCHANGED <<now, last_frame_time, current_time, elapsed, success, w, h,
                   results, key, camOpen, winOpen, wake, recovered>>
    /\ UNCHANGED hist

\* lines 75-78: sock.sendto returns, or raises and the error is printed
Send ==
    /\ pc = "send"
    /\ \E raises \in BOOLEAN :
          /\ sendErr' = raises
          /\ pc' = IF raises THEN OnSendError ELSE AfterSend
    /\ sendCalls' = sendCalls + 1
    /\ sentPayload' = Encode(data)
    /\ steps' = IF sendCalls = 0 THEN Append(steps, "send") ELSE steps
    /\ UNCHANGED <<now, last_frame_time, current_time, elapsed, success, w, h,
                   results, drawn, data, key, camOpen, winOpen, wake,
                   prevSendErr, failStreak, sleepReq, quitIters, readTime,
                   recovered>>

\* lines 81-83
Time ==
    /\ pc = "time"
    /\ current_time' = TimeTime(now)
    /\ elapsed' = FSub(current_time', last_frame_time)
    /\ pc' = IF NeedSleep(elapsed', frame_time) THEN "sleep" ELSE "stamp"
    /\ steps' = Append(steps, "time")
    /\ UNCHANGED <<now, last_frame_time, success, w, h, results, drawn, data,
                   key, camOpen, winOpen, wake, recovered>>
    /\ UNCHANGED hist

\* line 84: time.sleep(frame_time - elapsed) is called; it is due to
\* return when the clock has advanced by the argument
Sleep ==
    /\ pc = "sleep"
    /\ sleepReq' = SleepArg(elapsed, frame_time)
    /\ wake' = AddNs(now, SleepNs(sleepReq'))
    /\ pc' = "sleeping"
    /\ steps' = Append(steps, "sleep")
    /\ UNCHANGED <<now, last_frame_time, current_time, elapsed, success, w, h,
                   results, drawn, data, key, camOpen, winOpen, sendCalls,
                   sentPayload, sendErr, prevSendErr, failStreak, quitIters,
                   readTime, recovered>>

\* line 84: time.sleep returns, no sooner than asked
WakeUp ==
    /\ pc = "sleeping"
    /\ TsLeq(wake, now)
    /\ wake' = NoInstant
    /\ pc' = "stamp"
    /\ UNCHANGED <<now, last_frame_time, current_time, elapsed, success, w, h,
                   results, drawn, data, key, camOpen, winOpen, steps,
                   recovered>>
    /\ UNCHANGED hist

\* line 85
Stamp ==
    /\ pc = "stamp"
    /\ last_frame_time' = StampTime(TimeTime(now), current_time)
    /\ pc' = AfterStamp
    /\ steps' = Append(steps, "stamp")
    /\ UNCHANGED <<now, current_time, elapsed, success, w, h, results, drawn,
                   data, key, camOpen, winOpen, wake, recovered>>
    /\ UNCHANGED hist

\* line 88: cv2.imshow creates the window on first use
Imshow ==
    /\ pc = "imshow"
    /\ winOpen' = TRUE
    /\ pc' = "waitKey"
    /\ steps' = Append(steps, "imshow")
    /\ UNCHANGED <<now, last_frame_time, current_time, elapsed, success, w, h,
                   results, drawn, data, key, camOpen, wake, recovered>>
    /\ UNCHANGED hist

\* lines 90-91: cv2.waitKey(1) returns the waiting key, or -1
WaitKey ==
    /\ pc = "waitKey"
    /\ key' = NoKey
    /\ pc' = IF IsQuit(key) THEN OnQuit ELSE OnNoQuit
    /\ steps' = Append(steps, "waitKey")
    /\ UNCHANGED <<now, last_frame_time, current_time, elapsed, success, w, h,
                   results, drawn, data, camOpen, winOpen, wake, recovered>>
    /\ UNCHANGED hist

\* line 93
Release ==
    /\ pc = "release"
    /\ camOpen' = FALSE
    /\ pc' = "destroy"
    /\ UNCHANGED <<now, last_frame_time, current_time, elapsed, success, w, h,
                   results, drawn, data, key, winOpen, wake, steps, recovered>>
    /\ UNCHANGED hist

\* line 94
Destroy ==
    /\ pc = "destroy"
    /\ winOpen' = FALSE
    /\ pc' = "done"
    /\ UNCHANGED <<now, last_frame_time, current_time, elapsed, success, w, h,
                   results, drawn, data, key, camOpen, wake, steps, recovered>>
    /\ UNCHANGED hist

(***************************************************************************)
(* The environment: the clock and the keyboard.                            *)
(***************************************************************************)
\* time passes, at any statement: the clock advances to the next grid
\* instant, or to the instant the running sleep is due if that is sooner
Tick ==
    /\ pc \in Running \cup {"release", "destroy"}
    /\ LET grid == {GridNs(n) : n \in 1..MaxTime}
           due == IF pc = "sleeping" /\ wake.sec = now.sec
                  THEN {wake.nsec} ELSE {}
           later == {t \in grid \cup due : now.nsec < t /\ t <= GridNs(MaxTime)}
       IN  /\ later # {}
           /\ now' = [now EXCEPT
                        !.nsec = CHOOSE t \in later : \A u \in later : t <= u]
    /\ UNCHANGED <<pc, last_frame_time, current_time, elapsed, success, w, h,
                   results, drawn, data, key, camOpen, winOpen, wake, steps,
                   recovered>>
    /\ UNCHANGED hist

\* a key is pressed in the window; at most one waits between two polls
PressKey ==
    /\ pc \in Running
    /\ winOpen
    /\ key = NoKey
    /\ \E k \in KeyCodes :
          /\ key' = k
          /\ quitIters' = IF IsQuit(k) /\ pc # "read" THEN 1 ELSE 0
    /\ UNCHANGED <<pc, now, last_frame_time, current_time, elapsed, success,
                   w, h, results, drawn, data, camOpen, winOpen, wake, steps,
                   sendCalls, sentPayload, sendErr, prevSendErr, failStreak,
                   sleepReq, readTime, recovered>>

Next ==
    \/ Capture
    \/ Process
    \/ ProcessRaises
    \/ Build
    \/ Send
    \/ Time
    \/ Sleep
    \/ WakeUp
    \/ Stamp
    \/ Imshow
    \/ WaitKey
    \/ Release
    \/ Destroy
    \/ Tick
    \/ PressKey

Spec == Init /\ [][Next]_vars


(***************************************************************************)
(* The coordinate mapping on its own: one frame has been captured and one  *)
(* landmark detected, with coordinates drawn from MapCoords; Build maps    *)
(* it, and Inverse applies the inverse transform to what Build appended.   *)
(***************************************************************************)
\* x = posX / w, y = (h - posY) / h, z = posZ / w
InverseLandmark(pos, fw, fh) ==
    <<FDivInt(pos[1], fw),
      FDivInt(FSub(FromInt(fh), pos[2]), fh),
      FDivInt(pos[3], fw)>>

Inverse ==
    /\ pc = "send"
    /\ recovered = <<>>
    /\ recovered' = InverseLandmark(data, w, h)
    /\ UNCHANGED <<pc, now, last_frame_time, current_time, elapsed, success,
                   w, h, results, drawn, data, key, camOpen, winOpen, wake,
                   steps>>
    /\ UNCHANGED hist

InitMap ==
    /\ pc = "build"
    /\ now = ClockStart
    /\ last_frame_time = TimeTime(now)
    /\ current_time = NoTime
    /\ elapsed = NoTime
    /\ success = TRUE
    /\ \E size \in FrameSizes : w = size[1] /\ h = size[2]
    /\ \E x \in MapCoords, y \in MapCoords, z \in MapCoords :
          results = <<Landmark(x, y, z)>>
    /\ drawn = FALSE
    /\ data = <<>>
    /\ key = NoKey
    /\ camOpen = TRUE
    /\ winOpen = FALSE
    /\ wake = NoInstant
    /\ steps = <<"read", "process">>
    /\ sendCalls = 0
    /\ sentPayload = NoPayload
    /\ sendErr = FALSE
    /\ prevSendErr = FALSE
    /\ failStreak = 0
    /\ sleepReq = FZero
    /\ quitIters = 0
    /\ readTime = now
    /\ recovered = <<>>

NextMap ==
    \/ Build
    \/ Inverse

SpecMap == InitMap /\ [][NextMap]_vars

(***************************************************************************)
(* Exact (unrounded) arithmetic, to state what the floats approximate.     *)
(***************************************************************************)
Near(a, b, n) == AbsLeqPow2(XSub(a, b), n)

\* the exact values x*w, h - y*h, z*w
ExactMap(lm, fw, fh) ==
    <<XMulInt(lm.x, fw),
      XSub(FromInt(fh), XMulInt(lm.y, fh)),
      XMulInt(lm.z, fw)>>

Coords(lm) == <<lm.x, lm.y, lm.z>>
\* the mapping of lm rounded nowhere
MapsExactly(lm, fw, fh) ==
    /\ MapLandmark(lm, fw, fh) = ExactMap(lm, fw, fh)
    /\ FMulInt(lm.y, fh) = XMulInt(lm.y, fh)

Mapped == pc = "send" /\ Len(results) = 1
Inverted == Mapped /\ recovered # <<>>

\* C6 as stated: the values appended are x*w, h - y*h, z*w, the scenario
\* maps (0.5, 0.5, 0.1) at 1280x720 to (640, 360, 128), and the inverse
\* transform returns the original coordinates
C6_RoundTripExact ==
    /\ Mapped => /\ Len(data) = 3
                 /\ \A i \in 1..3 :
                       Near(data[i], ExactMap(results[1], w, h)[i], -38)
    /\ (Mapped /\ results[1] = LmCentre /\ w = 1280 /\ h = 720)
          => data = <<FromInt(640), FromInt(360), FromInt(128)>>
    /\ Inverted => recovered = Coords(results[1])

\* C6 amended: the values appended are the binary64 results of x*w,
\* h - y*h and z*w, within 2^-38 of the exact values (nothing is clamped or
\* rounded to a pixel); the scenario yields (640, 360, 128); the inverse
\* transform returns each coordinate to within 2^-48, and returns it
\* exactly when the mapping of the landmark rounded nowhere
C6_RoundTripToPrecision ==
    /\ Mapped => /\ Len(data) = 3
                 /\ \A i \in 1..3 :
                       Near(data[i], ExactMap(results[1], w, h)[i], -38)
    /\ (Mapped /\ results[1] = LmCentre /\ w = 1280 /\ h = 720)
          => data = <<FromInt(640), FromInt(360), FromInt(128)>>
    /\ Inverted => \A i \in 1..3 : Near(recovered[i], Coords(results[1])[i], -48)
    /\ (Inverted /\ MapsExactly(results[1], w, h))
          => recovered = Coords(results[1])

\* the scenario's landmark has been mapped and inverted
C6_Witness ==
    /\ Inverted
    /\ results[1] = LmCentre /\ w = 1280 /\ h = 720
    /\ data = <<FromInt(640), FromInt(360), FromInt(128)>>
    /\ recovered = Coords(LmCentre)

\* a landmark whose mapping rounds comes back changed
C6_InexactWitness ==
    /\ Inverted
    /\ ~MapsExactly(results[1], w, h)
    /\ recovered # Coords(results[1])

(***************************************************************************)
(* Properties of the loop.                                                 *)
(***************************************************************************)
Done(st) == \E i \in 1..Len(steps) : steps[i] = st
LastStep == IF steps = <<>> THEN "none" ELSE steps[Len(steps)]
IsPrefix(s, t) == Len(s) <= Len(t) /\ SubSeq(t, 1, Len(s)) = s

\* the statements of one iteration, in source order
Order(sent, slept) ==
    <<"read", "process", "build">>
    \o (IF sent THEN <<"send">> ELSE <<>>)
    \o <<"time">>
    \o (IF slept THEN <<"sleep">> ELSE <<>>)
    \o <<"stamp", "imshow", "waitKey">>

\* the 3*N numbers of the current frame's landmarks, in landmark order
RECURSIVE ExpectedFrom(_)
ExpectedFrom(i) ==
    IF i > Len(results) THEN <<>>
    ELSE MapLandmark(results[i], w, h) \o ExpectedFrom(i + 1)
Expected == ExpectedFrom(1)

\* C1: in an iteration whose capture succeeded and whose estimator reported
\* no pose, no payload is built and sendto is never called, control goes
\* from the detection branch straight to pacing, the iteration runs on in
\* source order through pacing and preview, and it neither crashes nor
\* shuts down other than by the quit poll
C1_NoPoseNoSend ==
    (Done("build") /\ results = NoPose) =>
        /\ sendCalls = 0
        /\ sentPayload = NoPayload
        /\ data = <<>>
        /\ ~drawn
        /\ pc \notin {"send", "crashed"}
        /\ \E slept \in BOOLEAN : IsPrefix(steps, Order(FALSE, slept))
        /\ LastStep = "build" => pc = "time"
        /\ pc \in Shutdown \cup {"read"} => LastStep = "waitKey"

\* a no-pose iteration has run to its end and the next one is about to start
C1_Witness ==
    /\ pc = "read"
    /\ results = NoPose
    /\ steps \in {Order(FALSE, TRUE), Order(FALSE, FALSE)}
    /\ sendCalls = 0

\* C2: in an iteration whose estimator reported N landmarks, sendto is
\* called exactly once, before pacing, and its payload is the list of the
\* 3*N mapped coordinates of that frame's landmarks, in landmark order
C2_OneDatagramPerPose ==
    /\ (results # NoPose /\ Done("send")) =>
          /\ sendCalls = 1
          /\ Len(sentPayload.list) = 3 * Len(results)
          /\ sentPayload = Encode(Expected)
    /\ (results # NoPose /\ Done("build") /\ pc # "send") => Done("send")
    /\ (results # NoPose /\ Done("time")) => sendCalls = 1

\* a two-landmark payload has been sent after an earlier iteration's send
C2_Witness ==
    /\ pc = "time"
    /\ Len(results) = 2
    /\ sendCalls = 1
    /\ ~sendErr
    /\ prevSendErr
    /\ Len(sentPayload.list) = 6

\* C3: after a failed cap.read() the iteration has done nothing but the
\* read (no inference, no mapping, no send), the camera is still open and
\* the program is about to call cap.read() again; this holds for every
\* failure of a run of failures
C3_CaptureFailureRetries ==
    (steps # <<>> /\ ~success) =>
        /\ pc = "read"
        /\ steps = <<"read">>
        /\ sendCalls = 0
        /\ sentPayload = NoPayload
        /\ ~drawn
        /\ camOpen
        /\ failStreak >= 1

\* three captures in a row have failed and the loop is still running
C3_Witness ==
    /\ failStreak = 3
    /\ pc = "read"
    /\ ~success
    /\ sendCalls = 0
    /\ camOpen

\* C4: sendto is called at most once in an iteration, whether or not it
\* raises; when it raises the iteration goes on to pacing and preview; and
\* every sendto call, also the one after a call that raised, carries the
\* list built in its own iteration, three numbers per landmark of its frame
C4_SendErrorDropsFrame ==
    /\ sendCalls <= 1
    /\ sendErr =>
          /\ pc # "crashed"
          /\ \E slept \in BOOLEAN : IsPrefix(steps, Order(TRUE, slept))
          /\ LastStep = "send" => pc = "time"
    /\ Done("send") =>
          /\ sentPayload = Encode(data)
          /\ Len(data) = 3 * Len(results)
    /\ (prevSendErr /\ results # NoPose /\ Done("time")) => sendCalls = 1

\* the iteration after one whose sendto raised has sent its own payload
C4_Witness ==
    /\ prevSendErr
    /\ ~sendErr
    /\ sendCalls = 1
    /\ pc = "imshow"
    /\ sentPayload = Encode(data)

\* C5 as stated: once the quit key is waiting, the iteration in progress is
\* the last one, whatever its capture returned, and the program then shuts
\* down with the camera released and the window destroyed
C5_QuitWhateverCapture ==
    /\ quitIters <= 1
    /\ pc = "done" => ~camOpen /\ ~winOpen

C5_Inv ==
    \* an iteration that ends with the quit key still waiting is one whose
    \* capture failed
    /\ (pc = "read" /\ IsQuit(key) /\ quitIters >= 1) =>
          ~success /\ steps = <<"read">>
    \* shutdown follows a completed iteration whose capture succeeded, and
    \* releases the camera before it destroys the window
    /\ pc \in Shutdown =>
          /\ success
          /\ key = NoKey
          /\ \E sent \in BOOLEAN, slept \in BOOLEAN : steps = Order(sent, slept)
    /\ pc \in {"destroy", "done"} => ~camOpen
    /\ pc = "done" => ~winOpen
C5_Step ==
    \* a waiting quit key waits until the poll that takes it
    /\ IsQuit(key) => IsQuit(key') \/ (pc = "waitKey" /\ pc' = "release")
    \* the poll of an iteration in which it waits ends the loop
    /\ (IsQuit(key) /\ pc = "waitKey" /\ pc' # pc) => pc' = "release"
    \* with the quit key waiting, an iteration whose capture succeeded
    \* starts no other iteration
    /\ (IsQuit(key) /\ pc \in Running \ {"read"}) => pc' # "read"
    \* after the loop nothing is captured, inferred or sent
    /\ pc \in Shutdown =>
          /\ pc' \in Shutdown
          /\ steps' = steps
          /\ sendCalls' = sendCalls
          /\ results' = results

\* C5 amended: a quit key press waits until the next quit poll, which only
\* an iteration whose capture succeeded reaches; that iteration runs to
\* completion, its poll ends the loop, no further iteration starts, and the
\* camera is released and then the window destroyed.  An iteration whose
\* capture fails does not poll: the next iteration starts with the key
\* still waiting.
C5_QuitAfterSuccessfulCapture == []C5_Inv /\ [][C5_Step]_vars

\* the quit key waited through a failed capture and then ended the loop
C5_Witness ==
    /\ pc = "done"
    /\ quitIters = 2
    /\ ~camOpen
    /\ ~winOpen

\* the stored timestamp before this iteration's update: the one elapsed
\* was measured from
StampBefore == XSub(current_time, elapsed)

C7_Inv ==
    /\ pc = "sleep" => FLess(elapsed, frame_time)
    /\ (Done("time") /\ ~Done("stamp")) =>
          elapsed = FSub(current_time, last_frame_time)
    /\ Done("sleep") =>
          /\ FLess(elapsed, frame_time)
          /\ sleepReq = FSub(frame_time, elapsed)
          /\ FLess(FZero, sleepReq)
    /\ (Done("stamp") /\ ~Done("sleep")) =>
          /\ FLeq(frame_time, elapsed)
          /\ sleepReq = FZero
    /\ (Done("stamp") /\ Done("sleep")) => FLeq(current_time, last_frame_time)
C7_Step ==
    /\ (pc = "time" /\ pc' # pc) =>
          /\ current_time' = TimeTime(now)
          /\ pc' = IF FLess(FSub(current_time', last_frame_time), frame_time)
                   THEN "sleep" ELSE "stamp"
    /\ (pc = "sleep" /\ pc' # pc) => wake' = AddNs(now, SleepNs(sleepReq'))
    /\ (pc = "sleeping" /\ pc' # pc) => TsLeq(wake, now)
    /\ (pc = "stamp" /\ pc' # pc) => last_frame_time' = TimeTime(now)

\* C7: at the pacing step elapsed is the time read there minus the stored
\* timestamp; time.sleep is called exactly when elapsed < frame_time, with
\* the argument frame_time - elapsed, which is positive; otherwise it is
\* not called; the timestamp stored afterwards is the time read after the
\* sleep returned
C7_PacerSleepsTheRemainder == []C7_Inv /\ [][C7_Step]_vars

\* an iteration slept part of a period and stored the later time
C7_Witness ==
    /\ pc = "imshow"
    /\ Done("sleep")
    /\ FLess(FZero, elapsed)
    /\ sleepReq = FSub(frame_time, elapsed)
    /\ FLess(current_time, last_frame_time)

\* C8 as stated: two consecutive cap.read() calls are at least frame_time
\* apart
C8_ReadsOnePeriodApart ==
    [][Capture =>
          \/ readTime = NoInstant
          \/ FLeq(frame_time, XSub(TimeTime(now), TimeTime(readTime)))]_vars

\* two consecutive updates of the stored timestamp are at least frame_time
\* apart, exactly
C8_StampsOnePeriodApartExactly ==
    [][(pc = "stamp" /\ pc' # pc) =>
          FLeq(frame_time, XSub(last_frame_time', last_frame_time))]_vars

\* C8 amended: the pacer keeps consecutive updates of the stored timestamp
\* (one per iteration whose capture succeeded) one period apart up to the
\* resolution of the clock's readings: for readings below 2^31 seconds the
\* later one minus the earlier one is more than frame_time - 2^-21 seconds.
\* Consecutive cap.read() calls can be closer: a failed capture is retried
\* without pacing, and an iteration that starts late does not sleep.
C8_StampsOnePeriodApart ==
    [][(pc = "stamp" /\ pc' # pc) =>
          LET short == XSub(frame_time, XSub(last_frame_time', last_frame_time))
          IN  /\ AbsLeqPow2(last_frame_time', 31)
              /\ \/ short.sign = 1
                 \/ AbsLeqPow2(short, -21) /\ short # FromHex(0, <<1>>, -21)]_vars

\* a timestamp was stored after a sleep, less than frame_time after the
\* one before it
C8_Witness ==
    /\ pc = "imshow"
    /\ Done("sleep")
    /\ FLess(StampBefore, current_time)
    /\ FLess(XSub(last_frame_time, StampBefore), frame_time)

C9_Inv ==
    /\ pc \in Running => camOpen
    /\ (pc \in Running /\ Done("imshow")) => winOpen
    /\ ~camOpen => pc \in {"destroy", "done"}
C9_Step ==
    \* the loop is left for shutdown by the quit poll alone
    /\ (pc \in Running /\ pc' \in Shutdown) =>
          pc = "waitKey" /\ IsQuit(key) /\ pc' = "release"
    \* and otherwise only by the estimator raising
    /\ (pc \in Running /\ pc' \notin Running \cup Shutdown) => pc = "process"
    /\ (camOpen /\ ~camOpen') => pc = "release"
    /\ (winOpen /\ ~winOpen') => pc = "destroy"

\* C9: the loop is left for shutdown only by the quit poll returning the
\* quit key; a failed capture, a frame without a pose and a send error all
\* keep it running; the camera is released and the window destroyed only
\* after the loop
C9_OnlyQuitEndsLoop == []C9_Inv /\ [][C9_Step]_vars

\* the loop survived a send error and a quit key then ended it
C9_Witness ==
    /\ pc = "release"
    /\ prevSendErr
    /\ camOpen
    /\ winOpen

\* C10: the statements of an iteration whose capture succeeded run in
\* source order (capture, inference, mapping, send if a pose was detected,
\* pacing, preview, quit poll), the send before the pacing sleep, and an
\* iteration starts only after the quit poll of the one before returned
C10_SequentialIteration ==
    /\ steps # <<>> =>
          \E sent \in BOOLEAN, slept \in BOOLEAN : IsPrefix(steps, Order(sent, slept))
    /\ Done("send") <=> (Done("time") /\ results # NoPose) \/ LastStep = "send"
    /\ pc = "read" =>
          \/ steps = <<>>
          \/ steps = <<"read">> /\ ~success
          \/ LastStep = "waitKey"
    /\ (success /\ LastStep = "read") => pc = "process"
    /\ LastStep = "process" => pc \in {"build", "crashed"}
    /\ LastStep = "build" => pc = IF results # NoPose THEN "send" ELSE "time"
    /\ LastStep = "send" => pc = "time"
    /\ LastStep = "time" => pc \in {"sleep", "stamp"}
    /\ LastStep = "sleep" => pc \in {"sleeping", "stamp"}
    /\ LastStep = "stamp" => pc = "imshow"
    /\ LastStep = "imshow" => pc = "waitKey"
    /\ LastStep = "waitKey" => pc \in {"read"} \cup Shutdown

\* a full iteration with a send and a sleep has ended and the next begins
C10_Witness ==
    /\ pc = "read"
    /\ steps = Order(TRUE, TRUE)
    /\ sendCalls = 1

=============================================================================
